---- MODULE Spec2Model ----
(***************************************************************************)
(* Model of subcmds/diffmanifests.py: the Diffmanifests command.           *)
(*                                                                         *)
(* Text is a sequence of characters (one-character strings); "\n" is the   *)
(* newline and " " the space.  A formatted string ('%s' substitution,      *)
(* '+' concatenation) is the concatenation of its pieces.  The output      *)
(* stream 'out' is the sequence of printer calls and nl() calls made so    *)
(* far, each with the printer it went through.                             *)
(***************************************************************************)
EXTENDS Integers, Sequences, FiniteSets, TLC

\* ------------------------------------------------------------ bounds
\* Projects of the two manifests that differ between them.
NumProjects == 2
\* Largest number of commit lines in one log text.
MaxLines == 17
\* Largest len(args) tried.
MaxArgs == 3

\* ------------------------------------------------- program constants
\* limit_lines = 10 in _printLogs.
limit_lines == 10
\* c[:12] in _quote_rev.
ShortIdLen == 12

VARIABLES
  opt,              \* the parsed options: raw, markdown, color, pretty_format
  env,              \* the repositories: what projectsDiff and the logs return
  pc,               \* position of Execute
  output_markdown,  \* self.output_markdown
  printer,          \* self.printProject/printAdded/printRemoved/printRevision
  diff,             \* the local 'diff' of Execute
  idx,              \* position of the loop over diff['changed']
  out,              \* everything written so far
  calls,            \* the calls of getAddedAndRemovedLogs made so far
  failure           \* which fatal error ended the run, "" if none

vars == <<opt, env, pc, output_markdown, printer, diff, idx, out, calls, failure>>

\* ------------------------------------------------------------ values
\* pretty_format is None unless --pretty-format was given.
NoPrettyFormat == "<None>"
PrettyFormats == {NoPrettyFormat, "%h %s"}

\* A log text the collaborator returns: None, or a string.
None == [none |-> TRUE, s |-> <<>>]
Str(s) == [none |-> FALSE, s |-> s]

\* Python truthiness of an optional string: None and '' are false.
Truthy(t) == ~t.none /\ t.s # <<>>

Whitespace == {" ", "\n", "\t"}

\* One letter per commit, so that every commit line is different.
Commit == <<"a", "b", "c", "d", "e", "f", "g", "h", "i", "j", "k", "l",
            "m", "n", "o", "p", "q", "r", "s", "t", "u", "v", "w", "x">>

\* ------------------------------------------------- string operations
\* str.split('\n'): the pieces between newlines; '' gives [''].
RECURSIVE Split(_)
Split(s) ==
  IF s = <<>> THEN << <<>> >>
  ELSE LET rest == Split(Tail(s))
       IN  IF Head(s) = "\n" THEN << <<>> >> \o rest
           ELSE << <<Head(s)>> \o Head(rest) >> \o Tail(rest)

\* str.lstrip(), then str.rstrip(): str.strip().
RECURSIVE LStrip(_)
LStrip(s) ==
  IF s # <<>> /\ Head(s) \in Whitespace THEN LStrip(Tail(s)) ELSE s

RECURSIVE RStrip(_)
RStrip(s) ==
  IF s # <<>> /\ s[Len(s)] \in Whitespace
  THEN RStrip(SubSeq(s, 1, Len(s) - 1)) ELSE s

Strip(s) == RStrip(LStrip(s))

\* str(n) and '%d' % n for n >= 0: the decimal digits.
Digit == <<"0", "1", "2", "3", "4", "5", "6", "7", "8", "9">>

RECURSIVE ToStr(_)
ToStr(n) ==
  IF n < 10 THEN <<Digit[n + 1]>>
  ELSE ToStr(n \div 10) \o <<Digit[(n % 10) + 1]>>

\* Concatenation of a sequence of sequences.
RECURSIVE Concat(_)
Concat(ss) == IF ss = <<>> THEN <<>> ELSE Head(ss) \o Concat(Tail(ss))

\* len([x for x in text.split('\n') if x.strip()])
NonBlankMutant(text) == Len(Split(text))
NonBlank(text) ==
  LET ls == Split(text)
  IN  Cardinality({i \in 1..Len(ls) : Strip(ls[i]) # <<>>})

\* ---------------------------------------------------------- projects
Path == <<"p1", "p2", "p3", "p4">>

HexDigits == {"0", "1", "2", "3", "4", "5", "6", "7", "8", "9",
              "a", "b", "c", "d", "e", "f"}

\* git_config.IsId: a full 40-digit hexadecimal object id.
IsId(c) == Len(c) = 40 /\ \A i \in 1..Len(c) : c[i] \in HexDigits

\* Project 1 is pinned to object ids, the others to branch names.
Sha(ch) == [i \in 1..40 |-> ch]
OldRev(i) == IF i = 1 THEN Sha("a") ELSE <<"o", Digit[i + 1]>>
NewRev(i) == IF i = 1 THEN Sha("b") ELSE <<"n", Digit[i + 1]>>

\* The project objects of manifest1 and of manifest2.
Old(i) == [relpath |-> Path[i], revisionExpr |-> OldRev(i)]
New(i) == [relpath |-> Path[i], revisionExpr |-> NewRev(i)]

Paths == {Path[i] : i \in 1..NumProjects}
Buckets == {"added", "removed", "changed", "unreachable"}

RECURSIVE Pick(_, _, _)
\* The projects i..NumProjects that f puts in bucket b, in manifest order.
Pick(f, b, i) ==
  IF i > NumProjects THEN <<>>
  ELSE (IF f[i] = b THEN <<i>> ELSE <<>>) \o Pick(f, b, i + 1)

\* What projectsDiff returns when f says what happened to each project.
DiffOf(f) ==
  LET sel(b) == Pick(f, b, 1)
  IN  [added       |-> [k \in 1..Len(sel("added")) |-> New(sel("added")[k])],
       removed     |-> [k \in 1..Len(sel("removed")) |-> Old(sel("removed")[k])],
       changed     |-> [k \in 1..Len(sel("changed")) |->
                          <<Old(sel("changed")[k]), New(sel("changed")[k])>>],
       unreachable |-> [k \in 1..Len(sel("unreachable")) |->
                          <<Old(sel("unreachable")[k]), New(sel("unreachable")[k])>>]]

EmptyDiff == [added |-> <<>>, removed |-> <<>>, changed |-> <<>>, unreachable |-> <<>>]

\* ------------------------------------------------------------- logs
RECURSIVE Join(_)
\* '\n'.join(lines)
Join(ls) ==
  IF ls = <<>> THEN <<>>
  ELSE IF Len(ls) = 1 THEN ls[1]
  ELSE ls[1] \o <<"\n">> \o Join(Tail(ls))

\* n commit lines starting at commit 'from'; when blankAt is in 1..n+1 a
\* whitespace-only line is element number blankAt; a final newline when
\* 'trailing' (git's output ends each commit line with a newline).
LogText(from, n, blankAt, trailing) ==
  LET commits == [k \in 1..n |-> <<Commit[from + k - 1]>>]
      ls == IF blankAt \in 1..(n + 1)
            THEN SubSeq(commits, 1, blankAt - 1) \o << <<" ">> >>
                 \o SubSeq(commits, blankAt, n)
            ELSE commits
      body == Join(ls)
  IN  Str(IF trailing /\ (n > 0 \/ blankAt = 1) THEN body \o <<"\n">>
          ELSE IF trailing THEN <<"\n">> ELSE body)

LogsDict(a, r) == [added |-> a, removed |-> r]
NoLogs == LogsDict(None, None)

\* A few short logs: the repositories of the structural specification.
FewLogs ==
  { NoLogs,
    LogsDict(LogText(1, 1, 0, TRUE), Str(<<>>)),
    LogsDict(Str(<<>>), LogText(2, 1, 0, FALSE)),
    LogsDict(LogText(1, 2, 2, TRUE), LogText(3, 1, 1, TRUE)) }

\* Log sizes around the two limits of _printLogs, and the empty ones.
Sizes ==
  {0, 1, limit_lines - 1, limit_lines} \cup (((limit_lines * 3) \div 2 - 1)..MaxLines)
ManyTexts ==
  {None} \cup
  { LogText(1, n, b, t) : n \in Sizes, b \in {0, limit_lines}, t \in BOOLEAN }
ManyLogs == { LogsDict(a, r) : a \in ManyTexts, r \in ManyTexts }

Options == [raw : BOOLEAN, markdown : BOOLEAN, color : BOOLEAN,
            pretty_format : PrettyFormats]

\* What happened to each project between the two manifests.
Fates == [1..NumProjects -> Buckets \cup {"same"}]

\* Every way the projects can differ, each changed one with a short log.
EnvsOf(f) ==
  { [diff |-> DiffOf(f), logs |-> g] :
      g \in { h \in [Paths -> FewLogs] :
                \A i \in 1..NumProjects : f[i] # "changed" => h[Path[i]] = NoLogs } }
Envs == UNION { EnvsOf(f) : f \in Fates }

\* Only project 1 differs, with every log of ManyLogs when it changed.
LogEnvsOf(f) ==
  { [diff |-> DiffOf(f), logs |-> [p \in Paths |-> IF p = Path[1] THEN l ELSE NoLogs]] :
      l \in IF f[1] = "changed" THEN ManyLogs ELSE {NoLogs} }
LogEnvs ==
  UNION { LogEnvsOf(f) : f \in { h \in Fates : \A i \in 2..NumProjects : h[i] = "same" } }

\* ---------------------------------------------------------- printing
\* One call of a printer with text s, and one call of self.out.nl().
T(p, s) == [p |-> p, s |-> s]
NL == [p |-> "nl", s |-> <<>>]

\* Execute binds the four printers: colored ones, or printText itself.
Bind(color) ==
  IF color
  THEN [project |-> "project", added |-> "green", removed |-> "red",
        revision |-> "revision"]
  ELSE [project |-> "text", added |-> "text", removed |-> "text",
        revision |-> "text"]

Unbound == [project |-> "", added |-> "", removed |-> "", revision |-> ""]

\* The code-span delimiter of _quote, as one piece of text.
BackQuote == "<backquote>"

quote(s) == IF output_markdown THEN <<BackQuote>> \o s \o <<BackQuote>> ELSE s

quote_rev(c) == quote(IF IsId(c) THEN SubSeq(c, 1, ShortIdLen) ELSE c)

title_prefix == IF output_markdown THEN <<"### ">> ELSE <<>>
list_prefix == IF output_markdown THEN <<"* ">> ELSE <<"\t">>
sublist_prefix == IF output_markdown THEN <<"    - ">> ELSE <<"\t\t">>

\* 'if diff[bucket]:' a section is printed for a non-empty bucket only.
SectionPresentMutant(bucket) == TRUE
SectionPresent(bucket) == bucket # <<>>

\* oneline=(pretty_format is None)
OnelineMutant(pretty_format) == TRUE
Oneline(pretty_format) == pretty_format = NoPrettyFormat

\* The arguments of one call project.getAddedAndRemovedLogs(otherProject, ...).
LogsCall(project, otherProject, color, pretty_format) ==
  [project |-> project, otherProject |-> otherProject,
   oneline |-> Oneline(pretty_format), color |-> color,
   pretty_format |-> pretty_format]

\* What getAddedAndRemovedLogs returns for a changed project.
getAddedAndRemovedLogs(project) == env.logs[project.relpath]

\* 'if not logs:' the parameter is None (<<>>) or the caller's dict (<<d>>),
\* and a dict holding the two keys is true.
NeedsFetchMutant(logs) ==
  logs = <<>> \/ (~Truthy(logs[1].added) /\ ~Truthy(logs[1].removed))
NeedsFetch(logs) == logs = <<>>

\* len(logs) > limit_lines * 3 / 2 and count >= limit_lines
Truncates(n, count) == n > (limit_lines * 3) \div 2 /\ count >= limit_lines

RawMark(which) == IF which = "removed" THEN " R " ELSE " A "
FmtMark(which) == IF which = "removed" THEN "[-] " ELSE "[+] "
Total(which) == IF which = "removed" THEN " REMOVED LOGS)" ELSE " ADDED LOGS)"

RECURSIVE LogLoop(_, _, _, _)
\* The loop 'for log in removedLogs' (addedLogs) from its element number
\* 'count' on: what it writes until it ends or breaks.
LogLoop(ls, count, raw, which) ==
  IF count > Len(ls) THEN <<>>
  ELSE IF Strip(ls[count]) # <<>>
  THEN (IF raw
        THEN <<T("text", <<RawMark(which)>> \o ls[count]), NL>>
        ELSE <<T(printer[which], sublist_prefix \o <<FmtMark(which)>>),
               T("text", ls[count]), NL>>)
       \o (IF Truncates(Len(ls), count)
           THEN <<T(printer[which], sublist_prefix \o <<"... ">>),
                  T("text", <<"(TOTAL ">> \o ToStr(Len(ls)) \o <<Total(which)>>),
                  NL>>
           ELSE LogLoop(ls, count + 1, raw, which))
  ELSE LogLoop(ls, count + 1, raw, which)

\* _printLogs: the calls it makes and what it writes.
printLogs(project, otherProject, raw, color, pretty_format, logs) ==
  LET fetch == NeedsFetch(logs)
      d == IF fetch THEN getAddedAndRemovedLogs(project) ELSE logs[1]
  IN  [calls |-> IF fetch
                 THEN <<LogsCall(project, otherProject, color, pretty_format)>>
                 ELSE <<>>,
       out |-> (IF Truthy(d.removed)
                THEN LogLoop(Split(d.removed.s), 1, raw, "removed") ELSE <<>>)
               \o (IF Truthy(d.added)
                   THEN LogLoop(Split(d.added.s), 1, raw, "added") ELSE <<>>)]

\* _printRawDiff: the record of one project, of one pair.
RawProject(status, project) ==
  <<T("text", <<status, project.relpath, " ">> \o project.revisionExpr), NL>>

RawPair(status, pair) ==
  <<T("text", <<status, pair[1].relpath, " ">> \o pair[1].revisionExpr
              \o <<" ">> \o pair[2].revisionExpr), NL>>

\* _printDiff: the lines of one added or removed project.
DiffProject(project) ==
  <<T(printer.project, list_prefix \o quote(<<project.relpath>>)),
    T("text", <<" at revision ">>),
    T(printer.revision, quote_rev(project.revisionExpr)), NL>>

\* _printDiff: the line of one unreachable pair.
DiffUnreachable(pair) ==
  <<T(printer.project, list_prefix \o quote(<<pair[1].relpath>>) \o <<" ">>),
    T(printer.revision, quote_rev(pair[1].revisionExpr)),
    T("text", <<" or ">>),
    T(printer.revision, quote_rev(pair[2].revisionExpr)),
    T("text", <<" not found">>), NL>>

\* _printDiff: the title of a section.
SectionTitle(name) ==
  <<NL, T("text", title_prefix \o <<name, "\n">>), NL>>

\* added = removed = 0; if logs[k]: len([x for x in ... if x.strip()])
CountOf(text) == IF Truthy(text) THEN NonBlank(text.s) ELSE 0

\* _printDiff: the header line of one changed project.
DiffChangedHeader(pair, logs) ==
  <<T(printer.project, list_prefix \o quote(<<pair[1].relpath>>)),
    T("text", <<" changed from ">>),
    T(printer.revision, quote_rev(pair[1].revisionExpr)),
    T("text", <<" to ">>),
    T(printer.revision, quote_rev(pair[2].revisionExpr)),
    T("text", <<" with ">> \o quote(ToStr(CountOf(logs.added))) \o <<" adds, ">>
              \o quote(ToStr(CountOf(logs.removed))) \o <<" removes">>),
    NL>>

\* The whole loops 'for project in diff[...]' over a bucket.
RawProjects(status, bucket) ==
  Concat([k \in 1..Len(bucket) |-> RawProject(status, bucket[k])])

RawPairs(status, bucket) ==
  Concat([k \in 1..Len(bucket) |-> RawPair(status, bucket[k])])

DiffProjects(bucket) ==
  Concat([k \in 1..Len(bucket) |-> DiffProject(bucket[k])])

DiffUnreachables(bucket) ==
  Concat([k \in 1..Len(bucket) |-> DiffUnreachable(bucket[k])])

\* ---------------------------------------------------------- Execute
InitWith(envs) ==
  /\ opt \in Options
  /\ env \in envs
  /\ pc = "start"
  /\ output_markdown = FALSE
  /\ printer = Unbound
  /\ diff = EmptyDiff
  /\ idx = 1
  /\ out = <<>>
  /\ calls = <<>>
  /\ failure = ""

Init == InitWith(Envs)
InitLogs == InitWith(LogEnvs)

Fail(what) ==
  /\ pc' = "failed"
  /\ failure' = what

\* if len(args) > 2: self.Usage()
Usage ==
  /\ pc = "start"
  /\ \E nargs \in 0..MaxArgs : nargs > 2
  /\ Fail("usage")
  /\ UNCHANGED <<opt, env, output_markdown, printer, diff, idx, out, calls>>

\* Execute binds output_markdown and the printers.
Setup ==
  /\ pc = "start"
  /\ \E nargs \in 0..MaxArgs : nargs <= 2
  /\ output_markdown' = opt.markdown
  /\ printer' = Bind(opt.color)
  /\ pc' = "load"
  /\ UNCHANGED <<opt, env, diff, idx, out, calls, failure>>

\* The two manifests are loaded (XmlManifest, Override, Save).
LoadManifests ==
  /\ pc = "load"
  /\ pc' = "diff"
  /\ UNCHANGED <<opt, env, output_markdown, printer, diff, idx, out, calls, failure>>

\* Loading a manifest raises.
LoadManifestsFails ==
  /\ pc = "load"
  /\ Fail("load")
  /\ UNCHANGED <<opt, env, output_markdown, printer, diff, idx, out, calls>>

\* diff = manifest1.projectsDiff(manifest2), then the choice of the mode.
ProjectsDiff ==
  /\ pc = "diff"
  /\ diff' = env.diff
  /\ pc' = IF opt.raw THEN "rawAdded" ELSE "title"
  /\ UNCHANGED <<opt, env, output_markdown, printer, idx, out, calls, failure>>

\* projectsDiff raises.
ProjectsDiffFails ==
  /\ pc = "diff"
  /\ Fail("diff")
  /\ UNCHANGED <<opt, env, output_markdown, printer, diff, idx, out, calls>>

\* ------------------------------------------------------ _printRawDiff
PrintRawAdded ==
  /\ pc = "rawAdded"
  /\ out' = out \o RawProjects("A ", diff.added)
  /\ pc' = "rawRemoved"
  /\ UNCHANGED <<opt, env, output_markdown, printer, diff, idx, calls, failure>>

PrintRawRemoved ==
  /\ pc = "rawRemoved"
  /\ out' = out \o RawProjects("R ", diff.removed)
  /\ idx' = 1
  /\ pc' = IF diff.changed = <<>> THEN "rawUnreachable" ELSE "rawChanged"
  /\ UNCHANGED <<opt, env, output_markdown, printer, diff, calls, failure>>

\* One turn of the loop over diff['changed'].
PrintRawChanged ==
  /\ pc = "rawChanged"
  /\ LET pair == diff.changed[idx]
         logs == printLogs(pair[1], pair[2], TRUE, FALSE, NoPrettyFormat, <<>>)
     IN  /\ out' = out \o RawPair("C ", pair) \o logs.out
         /\ calls' = calls \o logs.calls
  /\ idx' = idx + 1
  /\ pc' = IF idx = Len(diff.changed) THEN "rawUnreachable" ELSE "rawChanged"
  /\ UNCHANGED <<opt, env, output_markdown, printer, diff, failure>>

\* The turn in which getAddedAndRemovedLogs raises, were the logs fetched
\* before the C record is written, as _printDiff fetches them.
PrintRawChangedFailsMutant ==
  /\ pc = "rawChanged"
  /\ LET pair == diff.changed[idx]
     IN  calls' = calls \o <<LogsCall(pair[1], pair[2], FALSE, NoPrettyFormat)>>
  /\ Fail("logs")
  /\ UNCHANGED <<opt, env, output_markdown, printer, diff, idx, out>>

\* The turn in which getAddedAndRemovedLogs raises: the C record is out.
PrintRawChangedFails ==
  /\ pc = "rawChanged"
  /\ LET pair == diff.changed[idx]
     IN  /\ out' = out \o RawPair("C ", pair)
         /\ calls' = calls \o <<LogsCall(pair[1], pair[2], FALSE, NoPrettyFormat)>>
  /\ Fail("logs")
  /\ UNCHANGED <<opt, env, output_markdown, printer, diff, idx>>

PrintRawUnreachable ==
  /\ pc = "rawUnreachable"
  /\ out' = out \o RawPairs("U ", diff.unreachable)
  /\ pc' = "done"
  /\ UNCHANGED <<opt, env, output_markdown, printer, diff, idx, calls, failure>>

\* --------------------------------------------------------- _printDiff
AnyBucket(d) ==
  d.added # <<>> \/ d.removed # <<>> \/ d.changed # <<>> \/ d.unreachable # <<>>

\* The markdown title Execute prints before _printDiff.
PrintTitle ==
  /\ pc = "title"
  /\ out' = out \o
       (IF output_markdown /\ AnyBucket(diff)
        THEN <<T("text", <<"## repo diffmanifests ", "manifest1_name", " ",
                           "manifest2_name">>), NL>>
        ELSE <<>>)
  /\ pc' = "added"
  /\ UNCHANGED <<opt, env, output_markdown, printer, diff, idx, calls, failure>>

PrintDiffAdded ==
  /\ pc = "added"
  /\ out' = out \o
       (IF SectionPresent(diff.added)
        THEN SectionTitle("added projects :") \o DiffProjects(diff.added)
        ELSE <<>>)
  /\ pc' = "removed"
  /\ UNCHANGED <<opt, env, output_markdown, printer, diff, idx, calls, failure>>

PrintDiffRemoved ==
  /\ pc = "removed"
  /\ out' = out \o
       (IF SectionPresent(diff.removed)
        THEN SectionTitle("removed projects :") \o DiffProjects(diff.removed)
        ELSE <<>>)
  /\ pc' = "changed"
  /\ UNCHANGED <<opt, env, output_markdown, printer, diff, idx, calls, failure>>

PrintDiffChangedTitle ==
  /\ pc = "changed"
  /\ out' = out \o
       (IF SectionPresent(diff.changed)
        THEN SectionTitle("changed projects :") ELSE <<>>)
  /\ idx' = 1
  /\ pc' = IF diff.changed = <<>> THEN "unreachable" ELSE "changedLoop"
  /\ UNCHANGED <<opt, env, output_markdown, printer, diff, calls, failure>>

\* One turn of the loop over diff['changed'].
PrintDiffChanged ==
  /\ pc = "changedLoop"
  /\ LET pair == diff.changed[idx]
         logs == getAddedAndRemovedLogs(pair[1])
         rest == printLogs(pair[1], pair[2], FALSE, opt.color,
                           opt.pretty_format, <<logs>>)
     IN  /\ out' = out \o DiffChangedHeader(pair, logs) \o rest.out \o <<NL>>
         /\ calls' = calls
                     \o <<LogsCall(pair[1], pair[2], opt.color, opt.pretty_format)>>
                     \o rest.calls
  /\ idx' = idx + 1
  /\ pc' = IF idx = Len(diff.changed) THEN "unreachable" ELSE "changedLoop"
  /\ UNCHANGED <<opt, env, output_markdown, printer, diff, failure>>

\* The turn in which getAddedAndRemovedLogs raises: nothing of it is out.
PrintDiffChangedFails ==
  /\ pc = "changedLoop"
  /\ LET pair == diff.changed[idx]
     IN  calls' = calls
                  \o <<LogsCall(pair[1], pair[2], opt.color, opt.pretty_format)>>
  /\ Fail("logs")
  /\ UNCHANGED <<opt, env, output_markdown, printer, diff, idx, out>>

PrintDiffUnreachable ==
  /\ pc = "unreachable"
  /\ out' = out \o
       (IF SectionPresent(diff.unreachable)
        THEN SectionTitle("projects with unreachable revisions :")
             \o DiffUnreachables(diff.unreachable)
        ELSE <<>>)
  /\ pc' = "done"
  /\ UNCHANGED <<opt, env, output_markdown, printer, diff, idx, calls, failure>>

Next ==
  \/ Usage
  \/ Setup
  \/ LoadManifests
  \/ LoadManifestsFails
  \/ ProjectsDiff
  \/ ProjectsDiffFails
  \/ PrintRawAdded
  \/ PrintRawRemoved
  \/ PrintRawChanged
  \/ PrintRawChangedFails
  \/ PrintRawUnreachable
  \/ PrintTitle
  \/ PrintDiffAdded
  \/ PrintDiffRemoved
  \/ PrintDiffChangedTitle
  \/ PrintDiffChanged
  \/ PrintDiffChangedFails
  \/ PrintDiffUnreachable

\* Every way the projects differ, with short logs.
Spec == Init /\ [][Next]_vars

\* One project, with logs of every size around the limits of _printLogs.
SpecLogs == InitLogs /\ [][Next]_vars

\* ============================================================ claims
\* The non-blank lines of an optional log text, in its order.
NonBlankLines(t) ==
  IF t.none THEN <<>> ELSE SelectSeq(Split(t.s), LAMBDA l : Strip(l) # <<>>)

\* The largest position of out whose call starts with piece `first`.
LastStarting(first) ==
  LET at == {i \in 1..Len(out) : out[i].s # <<>> /\ out[i].s[1] = first}
  IN  CHOOSE i \in at : \A j \in at : j <= i

\* A turn of the raw loop over the changed projects has just ended.
RawTurnDone == opt.raw /\ pc \in {"rawChanged", "rawUnreachable"} /\ idx > 1

\* A turn of the formatted loop over the changed projects has just ended.
DiffTurnDone == ~opt.raw /\ pc \in {"changedLoop", "unreachable"} /\ idx > 1

\* The logs of the changed project of the turn that has just ended.
TurnLogs == env.logs[diff.changed[idx - 1][1].relpath]

\* What follows the C record of the turn that has just ended.
RawBlock == SubSeq(out, LastStarting("C ") + 2, Len(out))

\* What lies between the header line and the closing nl() of the turn.
DiffBlock == SubSeq(out, LastStarting(" with ") + 2, Len(out) - 1)

\* The records ' R <line>' and ' A <line>' of all the non-blank lines.
RawRecords(t, mark) ==
  Concat([k \in 1..Len(NonBlankLines(t)) |->
            <<T("text", <<mark>> \o NonBlankLines(t)[k]), NL>>])

\* C1: in raw mode every non-blank line of the removed log is written as
\* ' R <line>' and every non-blank line of the added log as ' A <line>',
\* in order, directly after the project's C record, whatever the length.
C1_RawLogsComplete ==
  RawTurnDone =>
    /\ out[LastStarting("C ")] = RawPair("C ", diff.changed[idx - 1])[1]
    /\ RawBlock = RawRecords(TurnLogs.removed, " R ") \o RawRecords(TurnLogs.added, " A ")

\* The lines of the output: the text written between two nl() calls.
RECURSIVE LinesFrom(_, _)
LinesFrom(evts, cur) ==
  IF evts = <<>> THEN (IF cur = <<>> THEN <<>> ELSE <<cur>>)
  ELSE IF Head(evts).p = "nl" THEN <<cur>> \o LinesFrom(Tail(evts), <<>>)
  ELSE LinesFrom(Tail(evts), cur \o Head(evts).s)

AllPaths == {Path[i] : i \in 1..Len(Path)}
Spaces(l) == Len(SelectSeq(l, LAMBDA x : x = " "))

\* 'A <relpath> <rev>' and 'R <relpath> <rev>'
IsProjectLine(l) ==
  /\ Len(l) >= 4 /\ l[1] \in {"A ", "R "} /\ l[2] \in AllPaths /\ l[3] = " "
  /\ Spaces(SubSeq(l, 4, Len(l))) = 0

\* 'C <relpath> <old> <new>' and 'U <relpath> <old> <new>'
IsPairLine(l) ==
  /\ Len(l) >= 6 /\ l[1] \in {"C ", "U "} /\ l[2] \in AllPaths /\ l[3] = " "
  /\ Spaces(SubSeq(l, 4, Len(l))) = 1 /\ l[4] # " " /\ l[Len(l)] # " "

\* ' A <line>' and ' R <line>'
IsCommitLine(l) ==
  Len(l) >= 2 /\ l[1] \in {" A ", " R "} /\ Strip(Tail(l)) # <<>>

\* C2: every line written in raw mode has a documented shape, none is
\* blank, and a commit line follows a C line or another commit line.
C2_RawLinesParse ==
  opt.raw =>
    LET ls == LinesFrom(out, <<>>)
    IN  \A i \in 1..Len(ls) :
          /\ IsProjectLine(ls[i]) \/ IsPairLine(ls[i]) \/ IsCommitLine(ls[i])
          /\ IsCommitLine(ls[i]) =>
               i > 1 /\ (ls[i - 1][1] = "C " \/ IsCommitLine(ls[i - 1]))

\* One log line of the formatted report.
DiffRecord(l, which) ==
  <<T(printer[which], sublist_prefix \o <<FmtMark(which)>>), T("text", l), NL>>

\* The summary line of the formatted report for a total of n.
SummaryRecord(n, which) ==
  <<T(printer[which], sublist_prefix \o <<"... ">>),
    T("text", <<"(TOTAL ">> \o ToStr(n) \o <<Total(which)>>), NL>>

\* What the truncation policy keeps of a log: all of at most 15 non-blank
\* lines, else the first 10 and a summary counting the non-blank lines.
Kept(t, which) ==
  LET nb == NonBlankLines(t)
      shown == IF Len(nb) > (limit_lines * 3) \div 2 THEN limit_lines ELSE Len(nb)
  IN  Concat([k \in 1..shown |-> DiffRecord(nb[k], which)])
      \o (IF Len(nb) > (limit_lines * 3) \div 2
          THEN SummaryRecord(Len(nb), which) ELSE <<>>)

\* C3: in formatted mode a log of at most 15 non-blank lines is printed
\* whole with no summary, and a longer one as its first 10 non-blank lines
\* and one summary line whose n is the number of non-blank lines.
C3_TruncationByNonBlank ==
  DiffTurnDone =>
    DiffBlock = Kept(TurnLogs.removed, "removed") \o Kept(TurnLogs.added, "added")

\* C4: in raw mode every call goes through the uncolored text printer (or
\* is nl()), and the collaborator is called with color = false.
C4_RawUncolored ==
  opt.raw =>
    /\ \A i \in 1..Len(out) : out[i].p \in {"text", "nl"}
    /\ \A k \in 1..Len(calls) : ~calls[k].color

\* The digits between pieces `from` and `to` of a header, quotes removed.
Between(l, from, to) ==
  LET a == CHOOSE i \in 1..Len(l) : l[i] = from
      b == CHOOSE i \in 1..Len(l) : l[i] = to
  IN  SelectSeq(SubSeq(l, a + 1, b - 1), LAMBDA x : x # BackQuote)

HeaderAdds == Between(out[LastStarting(" with ")].s, " with ", " adds, ")
HeaderRemoves == Between(out[LastStarting(" with ")].s, " adds, ", " removes")

\* The n of every summary line of the block that ends with piece `last`.
SummaryTotals(last) ==
  { SubSeq(DiffBlock[i].s, 2, Len(DiffBlock[i].s) - 1) :
      i \in { j \in 1..Len(DiffBlock) :
                /\ DiffBlock[j].s # <<>>
                /\ DiffBlock[j].s[1] = "(TOTAL "
                /\ DiffBlock[j].s[Len(DiffBlock[j].s)] = last } }

\* C10: the n of a summary line '(TOTAL n ADDED LOGS)' is the adds count
\* of the same project's header, and likewise for REMOVED.
C10_SummaryMatchesHeader ==
  DiffTurnDone =>
    /\ \A n \in SummaryTotals(" ADDED LOGS)") : n = HeaderAdds
    /\ \A n \in SummaryTotals(" REMOVED LOGS)") : n = HeaderRemoves

\* C8: the header of a changed project reports the numbers of non-blank
\* lines of the added and of the removed log, 0 for an empty or missing log.
C8_HeaderCounts ==
  DiffTurnDone =>
    /\ HeaderAdds = ToStr(Len(NonBlankLines(TurnLogs.added)))
    /\ HeaderRemoves = ToStr(Len(NonBlankLines(TurnLogs.removed)))

\* A header was printed for logs that hold blank lines beside commits.
C8_Witness ==
  /\ DiffTurnDone
  /\ Truthy(TurnLogs.added)
  /\ Len(NonBlankLines(TurnLogs.added)) \in 1..(Len(Split(TurnLogs.added.s)) - 1)
  /\ TurnLogs.removed = None

\* The raw pass ended by a fatal error.
RawFailed == opt.raw /\ pc = "failed"

\* C5 as stated: in raw mode nothing has been written when a fatal error
\* occurs, the failure of the log collaborator included.
C5_NothingWrittenOnFailure == RawFailed => out = <<>>

\* C5 as amended: in raw mode nothing has been written when the arguments,
\* a manifest or projectsDiff fail; when the log collaborator fails for a
\* changed project, the A and R records of all added and removed projects,
\* the C records of the changed projects up to that one, which is the last
\* record, have been written, and no U record.
C5_WrittenBeforeFailure ==
  RawFailed =>
    IF failure = "logs"
    THEN LET head == RawProjects("A ", diff.added) \o RawProjects("R ", diff.removed)
         IN  /\ Len(out) >= Len(head) + 2
             /\ SubSeq(out, 1, Len(head)) = head
             /\ SubSeq(out, Len(out) - 1, Len(out)) = RawPair("C ", diff.changed[idx])
             /\ Cardinality({i \in 1..Len(out) :
                               out[i].s # <<>> /\ out[i].s[1] = "C "}) = idx
             /\ \A i \in 1..Len(out) : out[i].s # <<>> => out[i].s[1] # "U "
    ELSE out = <<>>

\* The log collaborator failed in raw mode after an added project.
C5_Witness == RawFailed /\ failure = "logs" /\ diff.added # <<>>

\* The section titles and the project paths of the output, in its order.
Marks ==
  SelectSeq(Concat([i \in 1..Len(out) |-> out[i].s]),
            LAMBDA x : x \in AllPaths \cup
                             {"added projects :", "removed projects :",
                              "changed projects :",
                              "projects with unreachable revisions :"})

\* The title and the paths of a section, nothing for an empty bucket.
Section(name, paths) == IF paths = <<>> THEN <<>> ELSE <<name>> \o paths

\* C6: the formatted report has one section for each non-empty bucket and
\* none for an empty one, in the order added, removed, changed,
\* unreachable, each with the entries of its bucket in order, once each.
C6_SectionsInOrder ==
  (~opt.raw /\ pc = "done") =>
    Marks =
      Section("added projects :",
              [k \in 1..Len(diff.added) |-> diff.added[k].relpath])
      \o Section("removed projects :",
                 [k \in 1..Len(diff.removed) |-> diff.removed[k].relpath])
      \o Section("changed projects :",
                 [k \in 1..Len(diff.changed) |-> diff.changed[k][1].relpath])
      \o Section("projects with unreachable revisions :",
                 [k \in 1..Len(diff.unreachable) |-> diff.unreachable[k][1].relpath])

\* A formatted report with an empty bucket between two non-empty ones.
C6_Witness ==
  /\ ~opt.raw /\ pc = "done"
  /\ diff.added # <<>> /\ diff.removed = <<>> /\ diff.unreachable # <<>>

\* C7: the log collaborator is called once for each pair of the changed
\* bucket, in order, whatever it returns, and for no other project.
C7_OneCallPerChanged ==
  /\ Len(calls) <= Len(diff.changed)
  /\ \A k \in 1..Len(calls) :
       <<calls[k].project, calls[k].otherProject>> = diff.changed[k]
  /\ pc \in {"rawChanged", "changedLoop"} => Len(calls) = idx - 1
  /\ pc \in {"rawUnreachable", "unreachable", "done"} => Len(calls) = Len(diff.changed)

\* A formatted pass is over whose first changed project has no logs at all.
C7_Witness ==
  /\ ~opt.raw /\ pc = "done"
  /\ diff.changed # <<>>
  /\ env.logs[diff.changed[1][1].relpath] = NoLogs
  /\ Len(calls) = Len(diff.changed)

\* C9 as stated: in every mode the collaborator is called with oneline =
\* true exactly when no pretty_format was supplied, and with the supplied
\* pretty_format.
C9_PrettyFormatPassedThrough ==
  \A k \in 1..Len(calls) :
    /\ calls[k].oneline = (opt.pretty_format = NoPrettyFormat)
    /\ calls[k].pretty_format = opt.pretty_format

\* C9 as amended: that holds in formatted mode; in raw mode the collaborator
\* is always called with oneline = true and no pretty_format.
C9_PrettyFormatInFormattedMode ==
  \A k \in 1..Len(calls) :
    IF opt.raw
    THEN calls[k].oneline /\ calls[k].pretty_format = NoPrettyFormat
    ELSE /\ calls[k].oneline = (opt.pretty_format = NoPrettyFormat)
         /\ calls[k].pretty_format = opt.pretty_format

\* The collaborator was called in raw mode though a pretty_format was given.
C9_Witness == opt.raw /\ opt.pretty_format # NoPrettyFormat /\ calls # <<>>

====
